---- MODULE Spec2Model ----
(***************************************************************************)
(* Model of capa/capabilities/common.py:                                   *)
(*   find_file_capabilities  (feature aggregation + file-scope match)      *)
(*   find_capabilities       (static / dynamic dispatch)                   *)
(*   has_limitation, has_static_limitation, has_dynamic_limitation         *)
(*                                                                         *)
(* One behaviour is one call of one of the entry points.  Init draws the   *)
(* entry point and its arguments; the actions are the steps of the call.   *)
(*                                                                         *)
(* Representation of Python values:                                        *)
(*   - a location is None (the empty tuple <<>>) or an integer-valued      *)
(*     address <<n>> (capa's virtual addresses, file offsets and tokens    *)
(*     are int subclasses);                                                *)
(*   - a FeatureSet (dict feature -> set of addresses) is a function whose *)
(*     DOMAIN is the set of keys;                                          *)
(*   - a str used as text (a rule description) is a sequence of character  *)
(*     codes;                                                              *)
(*   - an Optional / "not yet produced" value is a set with at most one    *)
(*     element.                                                            *)
(***************************************************************************)
EXTENDS Integers, Sequences, FiniteSets

VARIABLES
    op,                 \* the entry point this behaviour calls
    pc,                 \* position inside the call
    raised,             \* exception that left the call, or "none"
    \* ---- find_file_capabilities
    file_stream,        \* pairs extract_file_features() yields
    global_stream,      \* pairs extract_global_features() yields
    function_features,  \* argument function_features
    file_features,      \* local file_features (the index being built)
    pos,                \* number of pairs of the chain consumed so far
    match_args,         \* {} or {arguments ruleset.match was called with}
    fcaps,              \* {} or {the FileCapabilities returned}
    \* ---- find_capabilities
    extractor,          \* which base classes the extractor is an instance of
    assertions,         \* whether assert statements are executed (no -O)
    strategy,           \* strategy function invoked, or "none"
    report,             \* TRUE once a Capabilities value was returned
    \* ---- has_*_limitation
    rules,              \* list(rules.rules.values()), in iteration order
    caps_matches,       \* keys of capabilities.matches
    is_standalone,      \* argument is_standalone
    limitation_rules,   \* the filtered list handed to has_limitation
    gate_result,        \* return value of has_limitation
    log                 \* logger.warning calls, in order

vars == <<op, pc, raised, file_stream, global_stream, function_features,
          file_features, pos, match_args, fcaps, extractor, assertions,
          strategy, report, rules, caps_matches, is_standalone,
          limitation_rules, gate_result, log>>

fileVars == <<file_stream, global_stream, function_features, file_features,
              pos, match_args, fcaps>>
dispatchVars == <<extractor, assertions, strategy, report>>
gateVars == <<rules, caps_matches, is_standalone, limitation_rules,
              gate_result, log>>

----------------------------------------------------------------------------
(* Bounds of the model *)

MaxPairs == 2       \* total number of pairs the two streams yield
MaxRules == 3       \* number of rules in the RuleSet

----------------------------------------------------------------------------
(* Values *)

Features == {"f1", "f2"}

None == <<>>
\* the address of value zero and two non-zero addresses
Addresses == {<<0>>, <<1>>, <<2>>}
Locations == Addresses \cup {None}

Pairs == [feature : Features, va : Locations]

SeqsOfLen(S, n) == [1..n -> S]

\* the two streams, together at most MaxPairs pairs long
StreamInputs ==
    UNION {SeqsOfLen(Pairs, a) \X SeqsOfLen(Pairs, b) :
             <<a, b>> \in {ab \in (0..MaxPairs) \X (0..MaxPairs) : ab[1] + ab[2] <= MaxPairs}}

\* every dict from some features to sets of addresses
FeatureSets == UNION {[D -> SUBSET Addresses] : D \in SUBSET Features}

EmptyDict == [k \in {} |-> {}]

----------------------------------------------------------------------------
(* find_file_capabilities *)

\* Python truth value of a location: None is false, and an integer-valued
\* address is false exactly when it is zero.
Truthy(va) == va /= None /\ va[1] /= 0

\* file_features[feature].add(va) on a defaultdict(set)
DefaultDictAdd(d, k, v) ==
    [x \in DOMAIN d \cup {k} |->
        IF x = k THEN (IF k \in DOMAIN d THEN d[k] ELSE {}) \cup {v} ELSE d[x]]

\* file_features[feature] = set()
DictSet(d, k, v) == [x \in DOMAIN d \cup {k} |-> IF x = k THEN v ELSE d[x]]

\* variant of the loop body: a pair without location always resets the set
ConsumePair_resets(idx, feature, va) ==
    IF Truthy(va)
    THEN DefaultDictAdd(idx, feature, va)
    ELSE DictSet(idx, feature, {})

\* variant of the loop body: a pair without location is ignored
ConsumePair_dropsAbsent(idx, feature, va) ==
    IF Truthy(va)
    THEN DefaultDictAdd(idx, feature, va)
    ELSE idx

\* the body of the for loop
ConsumePair(idx, feature, va) ==
    IF Truthy(va)
    THEN DefaultDictAdd(idx, feature, va)
    ELSE IF feature \notin DOMAIN idx
         THEN DictSet(idx, feature, {})
         ELSE idx

\* dict.update: a key of other takes other's value
DictUpdate(d, other) ==
    [k \in DOMAIN d \cup DOMAIN other |->
        IF k \in DOMAIN other THEN other[k] ELSE d[k]]

\* itertools.chain
Chain(a, b) == a \o b

\* the whole loop over a chain, starting from idx
RECURSIVE Aggregate(_, _)
Aggregate(chain, idx) ==
    IF chain = <<>>
    THEN idx
    ELSE Aggregate(Tail(chain), ConsumePair(idx, Head(chain).feature, Head(chain).va))

\* the index find_file_capabilities hands to ruleset.match
FileIndex(a, b, ff) == DictUpdate(Aggregate(Chain(a, b), EmptyDict), ff)

\* what the external matcher may report: no file-scope rule matched, or the
\* file-scope rule 1 matched
MatchOutcomes == {{}, {1}}

StreamStep ==
    /\ op = "find_file_capabilities"
    /\ pc = "stream"
    /\ pos < Len(Chain(file_stream, global_stream))
    /\ LET p == Chain(file_stream, global_stream)[pos + 1]
       IN file_features' = ConsumePair(file_features, p.feature, p.va)
    /\ pos' = pos + 1
    /\ UNCHANGED <<op, pc, raised, file_stream, global_stream,
                   function_features, match_args, fcaps>>
    /\ UNCHANGED dispatchVars
    /\ UNCHANGED gateVars

\* variant of StreamFail: the failure is caught and the partial index is used
StreamFail_swallow ==
    /\ op = "find_file_capabilities"
    /\ pc = "stream"
    /\ pc' = "update"
    /\ UNCHANGED <<op, raised>>
    /\ UNCHANGED fileVars
    /\ UNCHANGED dispatchVars
    /\ UNCHANGED gateVars

\* the extractor raises while the chain is being pulled
StreamFail ==
    /\ op = "find_file_capabilities"
    /\ pc = "stream"
    /\ pc' = "raised"
    /\ raised' = "ExtractionFailure"
    /\ UNCHANGED op
    /\ UNCHANGED fileVars
    /\ UNCHANGED dispatchVars
    /\ UNCHANGED gateVars

\* the chain is exhausted
StreamEnd ==
    /\ op = "find_file_capabilities"
    /\ pc = "stream"
    /\ pos = Len(Chain(file_stream, global_stream))
    /\ pc' = "update"
    /\ UNCHANGED <<op, raised>>
    /\ UNCHANGED fileVars
    /\ UNCHANGED dispatchVars
    /\ UNCHANGED gateVars

Update ==
    /\ op = "find_file_capabilities"
    /\ pc = "update"
    /\ file_features' = DictUpdate(file_features, function_features)
    /\ pc' = "match"
    /\ UNCHANGED <<op, raised, file_stream, global_stream, function_features,
                   pos, match_args, fcaps>>
    /\ UNCHANGED dispatchVars
    /\ UNCHANGED gateVars

Match ==
    /\ op = "find_file_capabilities"
    /\ pc = "match"
    /\ match_args' = {[scope |-> "FILE", features |-> file_features, addr |-> "NO_ADDRESS"]}
    /\ pc' = "return"
    /\ UNCHANGED <<op, raised, file_stream, global_stream, function_features,
                   file_features, pos, fcaps>>
    /\ UNCHANGED dispatchVars
    /\ UNCHANGED gateVars

Return ==
    /\ op = "find_file_capabilities"
    /\ pc = "return"
    /\ \E m \in MatchOutcomes :
          \* features: the index handed in, plus one derived feature per
          \* matched rule (kept apart in the field derived)
          fcaps' = {[features |-> file_features, derived |-> m, matches |-> m,
                     feature_count |-> Cardinality(DOMAIN file_features)]}
    /\ pc' = "returned"
    /\ UNCHANGED <<op, raised, file_stream, global_stream, function_features,
                   file_features, pos, match_args>>
    /\ UNCHANGED dispatchVars
    /\ UNCHANGED gateVars

----------------------------------------------------------------------------
(* find_capabilities *)

ExtractorKinds == [static : BOOLEAN, dynamic : BOOLEAN]

\* variant of the dispatch without the assertion of line 75
find_capabilities_noassert(e, asserts) ==
    IF e.static
    THEN [strategy |-> "find_static_capabilities", raised |-> "none"]
    ELSE IF e.dynamic
         THEN [strategy |-> "find_dynamic_capabilities", raised |-> "none"]
         ELSE [strategy |-> "none", raised |-> "ValueError"]

find_capabilities(e, asserts) ==
    IF e.static
    THEN IF asserts /\ e.dynamic
         THEN [strategy |-> "none", raised |-> "AssertionError"]
         ELSE [strategy |-> "find_static_capabilities", raised |-> "none"]
    ELSE IF e.dynamic
         THEN [strategy |-> "find_dynamic_capabilities", raised |-> "none"]
         ELSE [strategy |-> "none", raised |-> "ValueError"]

FindCapabilities ==
    /\ op = "find_capabilities"
    /\ pc = "call"
    /\ LET r == find_capabilities(extractor, assertions)
       IN /\ strategy' = r.strategy
          /\ raised' = r.raised
          /\ report' = (r.raised = "none")
          /\ pc' = IF r.raised = "none" THEN "returned" ELSE "raised"
    /\ UNCHANGED <<op, extractor, assertions>>
    /\ UNCHANGED fileVars
    /\ UNCHANGED gateVars

----------------------------------------------------------------------------
(* has_limitation, has_static_limitation, has_dynamic_limitation *)

NL == 10            \* "\n"

STATIC_NS == "internal/limitation/static"
DYNAMIC_NS == "internal/limitation/dynamic"

\* namespaces a rule may declare; the third has the static sentinel as a
\* proper prefix, the fourth the dynamic one
Namespaces == {STATIC_NS, DYNAMIC_NS,
               "internal/limitation/static/packer",
               "internal/limitation/dynamic/sandbox"}

\* the description of rule n, when it has one: "a", or "a\nb"
DescriptionText(n) == IF n % 3 = 2 THEN <<97, NL, 98>> ELSE <<97>>

\* meta of rule n: the namespace key is present iff ns is non-empty, the
\* description key is absent for every third rule
RuleMeta(n, ns) ==
    [k \in (IF ns = {} THEN {} ELSE {"namespace"})
           \cup (IF n % 3 = 0 THEN {} ELSE {"description"}) |->
        IF k = "namespace" THEN CHOOSE v \in ns : TRUE ELSE DescriptionText(n)]

\* rule names are unique within a RuleSet: rule i is named i
RuleSets ==
    UNION {{[i \in 1..n |-> [name |-> i, meta |-> RuleMeta(i, nss[i])]] :
              nss \in [1..n -> {{}} \cup {{s} : s \in Namespaces}]} :
           n \in 0..MaxRules}

\* dict.get(key, default)
DictGet(d, key, default) == IF key \in DOMAIN d THEN d[key] ELSE default

\* str.split("\n")
RECURSIVE Split(_)
Split(s) ==
    IF \A i \in 1..Len(s) : s[i] /= NL
    THEN <<s>>
    ELSE LET i == CHOOSE j \in 1..Len(s) :
                     s[j] = NL /\ \A k \in 1..(j - 1) : s[k] /= NL
         IN <<SubSeq(s, 1, i - 1)>> \o Split(SubSeq(s, i + 1, Len(s)))

\* one logger.warning call: <<format, arguments as text>>
Separator == <<"--------------------------------------------------------------------------------", <<>>>>
LineFmt == " %s"
IdentifiedFmt == " Identified via rule: %s"
Blank == <<" ", <<>>>>
Hint == <<" Use -v or -vv if you really want to see the capabilities identified by capa.", <<>>>>

\* the warnings emitted for one matched rule
Explanation(rule, standalone) ==
    LET lines == Split(DictGet(rule.meta, "description", <<>>))
    IN <<Separator>>
       \o [i \in 1..Len(lines) |-> <<LineFmt, lines[i]>>]
       \o << <<IdentifiedFmt, <<rule.name>>>> >>
       \o (IF standalone THEN <<Blank, Hint>> ELSE <<>>)
       \o <<Separator>>

\* variant of has_limitation: the last matched rule is reported
RECURSIVE has_limitation_last(_, _, _)
has_limitation_last(rs, matches, standalone) ==
    IF rs = <<>>
    THEN [ret |-> FALSE, log |-> <<>>]
    ELSE LET rest == has_limitation_last(Tail(rs), matches, standalone)
         IN IF rest.ret \/ Head(rs).name \notin matches
            THEN rest
            ELSE [ret |-> TRUE, log |-> Explanation(Head(rs), standalone)]

\* variant of has_limitation: the explanation is logged, True is not returned
RECURSIVE has_limitation_noreturn(_, _, _)
has_limitation_noreturn(rs, matches, standalone) ==
    IF rs = <<>>
    THEN [ret |-> FALSE, log |-> <<>>]
    ELSE IF Head(rs).name \notin matches
         THEN has_limitation_noreturn(Tail(rs), matches, standalone)
         ELSE [ret |-> FALSE, log |-> Explanation(Head(rs), standalone)]

\* the return value and the warnings emitted
RECURSIVE has_limitation(_, _, _)
has_limitation(rs, matches, standalone) ==
    IF rs = <<>>
    THEN [ret |-> FALSE, log |-> <<>>]
    ELSE IF Head(rs).name \notin matches
         THEN has_limitation(Tail(rs), matches, standalone)
         ELSE [ret |-> TRUE, log |-> Explanation(Head(rs), standalone)]

\* variant of is_static_limitation_rule: compares with the dynamic sentinel
is_static_limitation_rule_pasted(r) == DictGet(r.meta, "namespace", "") = DYNAMIC_NS

is_static_limitation_rule(r) == DictGet(r.meta, "namespace", "") = STATIC_NS

is_dynamic_limitation_rule(r) == DictGet(r.meta, "namespace", "") = DYNAMIC_NS

HasStaticLimitation ==
    /\ op = "has_static_limitation"
    /\ pc = "call"
    /\ LET l == SelectSeq(rules, is_static_limitation_rule)
           r == has_limitation(l, caps_matches, is_standalone)
       IN /\ limitation_rules' = l
          /\ gate_result' = r.ret
          /\ log' = r.log
    /\ pc' = "returned"
    /\ UNCHANGED <<op, raised, rules, caps_matches, is_standalone>>
    /\ UNCHANGED fileVars
    /\ UNCHANGED dispatchVars

HasDynamicLimitation ==
    /\ op = "has_dynamic_limitation"
    /\ pc = "call"
    /\ LET l == SelectSeq(rules, is_dynamic_limitation_rule)
           r == has_limitation(l, caps_matches, is_standalone)
       IN /\ limitation_rules' = l
          /\ gate_result' = r.ret
          /\ log' = r.log
    /\ pc' = "returned"
    /\ UNCHANGED <<op, raised, rules, caps_matches, is_standalone>>
    /\ UNCHANGED fileVars
    /\ UNCHANGED dispatchVars

----------------------------------------------------------------------------
(* Specification *)

Init ==
    /\ op \in {"find_file_capabilities", "find_capabilities",
               "has_static_limitation", "has_dynamic_limitation"}
    /\ pc = IF op = "find_file_capabilities" THEN "stream" ELSE "call"
    /\ raised = "none"
    /\ IF op = "find_file_capabilities"
       THEN /\ \E s \in StreamInputs : file_stream = s[1] /\ global_stream = s[2]
            /\ function_features \in FeatureSets
       ELSE /\ file_stream = <<>>
            /\ global_stream = <<>>
            /\ function_features = EmptyDict
    /\ file_features = EmptyDict
    /\ pos = 0
    /\ match_args = {}
    /\ fcaps = {}
    /\ IF op = "find_capabilities"
       THEN /\ extractor \in ExtractorKinds
            /\ assertions \in BOOLEAN
       ELSE /\ extractor = [static |-> TRUE, dynamic |-> FALSE]
            /\ assertions = TRUE
    /\ strategy = "none"
    /\ report = FALSE
    /\ IF op \in {"has_static_limitation", "has_dynamic_limitation"}
       THEN /\ rules \in RuleSets
            /\ caps_matches \in SUBSET (1..MaxRules)
            /\ is_standalone \in BOOLEAN
       ELSE /\ rules = <<>>
            /\ caps_matches = {}
            /\ is_standalone = TRUE
    /\ limitation_rules = <<>>
    /\ gate_result = FALSE
    /\ log = <<>>

Next ==
    \/ StreamStep
    \/ StreamFail
    \/ StreamEnd
    \/ Update
    \/ Match
    \/ Return
    \/ FindCapabilities
    \/ HasStaticLimitation
    \/ HasDynamicLimitation

Spec == Init /\ [][Next]_vars

----------------------------------------------------------------------------
(* Properties of find_file_capabilities *)

TheChain == Chain(file_stream, global_stream)

\* the location set of feature F in a dict, empty when F is not a key
IndexLocs(idx, F) == IF F \in DOMAIN idx THEN idx[F] ELSE {}

\* the pairs among the first n of the chain that carry feature F
PairsOf(F, n) == {i \in 1..n : TheChain[i].feature = F}

\* the locations the two streams yield for feature F
StreamLocs(F) == {TheChain[i].va : i \in {j \in PairsOf(F, Len(TheChain)) : TheChain[j].va /= None}}

StreamsConsumed == op = "find_file_capabilities" /\ pc \in {"update", "match", "return", "returned"}

Merged == op = "find_file_capabilities" /\ pc \in {"match", "return", "returned"}

\* C1: for every feature F, the location set of F in the index handed to
\* ruleset.match is the union of the locations the two streams yield for F
\* and the location set of F in function_features.
C1_HandedIndexIsUnion ==
    \A a \in match_args : \A F \in Features :
        IndexLocs(a.features, F) = StreamLocs(F) \cup IndexLocs(function_features, F)

\* C2: no step of find_file_capabilities removes a key of the index being
\* built or a location from the set recorded for a key.
C2_LocationSetsNeverShrink ==
    [][\A F \in DOMAIN file_features :
          F \in DOMAIN file_features' /\ file_features[F] \subseteq file_features'[F]]_vars

\* C3: the index handed to ruleset.match after consuming the file stream, then
\* the global stream, then function_features equals the index obtained by
\* consuming the global stream first and the file stream second.
C3_MergeCommutes ==
    /\ Merged => file_features = FileIndex(global_stream, file_stream, function_features)
    /\ \A a \in match_args :
          a.features = FileIndex(global_stream, file_stream, function_features)

C3_Witness ==
    /\ match_args /= {}
    /\ file_stream /= <<>>
    /\ global_stream /= <<>>
    /\ \E i \in 1..Len(file_stream), j \in 1..Len(global_stream) :
          /\ file_stream[i].feature = global_stream[j].feature
          /\ file_stream[i].va /= global_stream[j].va
          /\ file_stream[i].va = None \/ global_stream[j].va = None
          /\ file_stream[i].feature \notin DOMAIN function_features

\* C4: a feature yielded with no location is a key of the resulting index;
\* its set is empty when no stream pair and no function_features entry gives
\* it a location; and consuming a pair with no location for a feature that is
\* already a key leaves the set recorded for it unchanged.
C4_AddressLessPresence ==
    /\ [](StreamsConsumed =>
            \A i \in 1..Len(TheChain) :
               TheChain[i].va = None =>
                  LET F == TheChain[i].feature
                  IN /\ F \in DOMAIN file_features
                     /\ (StreamLocs(F) = {} /\ (Merged => IndexLocs(function_features, F) = {}))
                           => file_features[F] = {})
    /\ [][(pc = "stream" /\ pos' = pos + 1 /\ TheChain[pos + 1].va = None) =>
             \A F \in DOMAIN file_features :
                F \in DOMAIN file_features' /\ file_features'[F] = file_features[F]]_vars

C4_Witness ==
    /\ Merged
    /\ \E i, j \in 1..Len(TheChain) :
          /\ i < j
          /\ TheChain[i].feature = TheChain[j].feature
          /\ Truthy(TheChain[i].va)
          /\ TheChain[j].va = None
          /\ file_features[TheChain[j].feature] = {TheChain[i].va}

\* C5: once the streams have been consumed, every location that a pair of the
\* streams carries (any address, zero included) is a member of the set
\* recorded for the pair's feature.
C5_PresentLocationRecorded ==
    (op = "find_file_capabilities" /\ pc = "update") =>
        \A i \in 1..Len(TheChain) :
           TheChain[i].va /= None =>
              TheChain[i].va \in IndexLocs(file_features, TheChain[i].feature)

\* C10: when the extractor fails while a stream is consumed the failure leaves
\* the call (nothing runs after it), ruleset.match is not invoked and no
\* FileCapabilities is returned; a FileCapabilities is returned only after
\* the whole chain was consumed, function_features was merged and the
\* file-scope match at NO_ADDRESS was made on the merged index.
C10_NoPartialReport ==
    /\ [](op = "find_file_capabilities" =>
            /\ raised /= "none" => (pc = "raised" /\ match_args = {} /\ fcaps = {})
            /\ match_args /= {} => (raised = "none" /\ pos = Len(TheChain))
            /\ \A c \in fcaps :
                  /\ raised = "none"
                  /\ pos = Len(TheChain)
                  /\ \A F \in DOMAIN function_features :
                        F \in DOMAIN c.features /\ c.features[F] = function_features[F]
                  /\ \A i \in 1..Len(TheChain) : TheChain[i].feature \in DOMAIN c.features
                  /\ match_args = {[scope |-> "FILE", features |-> c.features, addr |-> "NO_ADDRESS"]}
                  /\ c.feature_count = Cardinality(DOMAIN c.features))
    /\ [][pc /= "raised"]_vars

C10_Witness ==
    /\ op = "find_file_capabilities"
    /\ pc = "raised"
    /\ raised = "ExtractionFailure"
    /\ pos > 0
    /\ pos < Len(TheChain)
    /\ file_features /= EmptyDict
    /\ fcaps = {}

----------------------------------------------------------------------------
(* Properties of find_capabilities *)

DispatchDone == op = "find_capabilities" /\ pc /= "call"

Routed(s) == strategy = s /\ raised = "none" /\ report

Failed(e) == raised = e /\ strategy = "none" /\ ~report

\* C6: a static-only extractor is routed to find_static_capabilities, a
\* dynamic-only one to find_dynamic_capabilities, and an extractor that is
\* neither or both fails with one and the same error kind, no strategy
\* invoked, no report returned.
C6_SameErrorForNeitherAndBoth ==
    DispatchDone =>
        /\ (extractor.static /\ ~extractor.dynamic) => Routed("find_static_capabilities")
        /\ (~extractor.static /\ extractor.dynamic) => Routed("find_dynamic_capabilities")
        /\ (extractor.static = extractor.dynamic) => Failed("ValueError")

\* C6 (amended): a static-only extractor is routed to
\* find_static_capabilities, a dynamic-only one to find_dynamic_capabilities;
\* an extractor that is neither fails with ValueError; an extractor that is
\* both fails with AssertionError when assert statements are executed and is
\* routed to find_static_capabilities when they are stripped; a failing call
\* invokes no strategy and returns no report.
C6_Dispatch ==
    DispatchDone =>
        /\ (extractor.static /\ ~extractor.dynamic) => Routed("find_static_capabilities")
        /\ (~extractor.static /\ extractor.dynamic) => Routed("find_dynamic_capabilities")
        /\ (~extractor.static /\ ~extractor.dynamic) => Failed("ValueError")
        /\ (extractor.static /\ extractor.dynamic /\ assertions) => Failed("AssertionError")
        /\ (extractor.static /\ extractor.dynamic /\ ~assertions) => Routed("find_static_capabilities")

C6_Witness ==
    /\ DispatchDone
    /\ extractor.static
    /\ extractor.dynamic
    /\ raised = "AssertionError"
    /\ ~report

----------------------------------------------------------------------------
(* Properties of the limitation gate *)

GateDone == op \in {"has_static_limitation", "has_dynamic_limitation"} /\ pc = "returned"

\* positions of the limitation list whose rule is matched by the report
Hits == {i \in 1..Len(limitation_rules) : limitation_rules[i].name \in caps_matches}

FirstHit == CHOOSE i \in Hits : \A j \in Hits : i <= j

IsLine(e) == e[1] = LineFmt

IsIdentified(e) == e[1] = IdentifiedFmt

\* the description lines of rule n as the model's rule sets declare them
LinesOf(n) == IF n % 3 = 0 THEN << <<>> >>
              ELSE IF n % 3 = 2 THEN << <<97>>, <<98>> >>
              ELSE << <<97>> >>

\* C7: the gate emits the explanation of the first rule of the limitation
\* list whose name is matched, and of no other rule: one "identified via"
\* line, naming that rule, and that rule's description lines; with no matched
\* rule nothing is emitted.
C7_FirstLimitationOnly ==
    GateDone =>
        IF Hits = {}
        THEN log = <<>>
        ELSE LET L == limitation_rules[FirstHit]
             IN /\ SelectSeq(log, IsIdentified) = << <<IdentifiedFmt, <<L.name>>>> >>
                /\ SelectSeq(log, IsLine) = [i \in 1..Len(LinesOf(L.name)) |-> <<LineFmt, LinesOf(L.name)[i]>>]
                /\ log = Explanation(L, is_standalone)
                /\ Len(log) = Len(LinesOf(L.name)) + (IF is_standalone THEN 5 ELSE 3)

C7_Witness ==
    /\ GateDone
    /\ Cardinality(Hits) >= 2
    /\ FirstHit > 1
    /\ SelectSeq(log, IsIdentified) = << <<IdentifiedFmt, <<limitation_rules[FirstHit].name>>>> >>

\* C8: the gate returns true iff some rule of the limitation list has its
\* name among the report's matches, it returns true exactly when it emitted
\* an explanation, and it never raises.
C8_ResultIffMatched ==
    GateDone =>
        /\ gate_result \in BOOLEAN
        /\ gate_result <=> (\E i \in 1..Len(limitation_rules) : limitation_rules[i].name \in caps_matches)
        /\ gate_result <=> (log /= <<>>)
        /\ raised = "none"

C8_Witness ==
    /\ GateDone
    /\ gate_result
    /\ log /= <<>>
    /\ Len(limitation_rules) >= 2
    /\ limitation_rules[1].name \notin caps_matches

Sentinel == IF op = "has_static_limitation" THEN STATIC_NS ELSE DYNAMIC_NS

\* the rule declares a namespace and it is exactly ns
DeclaresExactly(r, ns) == "namespace" \in DOMAIN r.meta /\ r.meta["namespace"] = ns

\* C9: the limitation list is exactly the rules whose namespace equals the
\* sentinel of the mode, in rule-set order, and the gate returns true iff one
\* of those rules is matched; a matched rule with no namespace, with a longer
\* namespace, or with the other mode's sentinel does not make it true.
C9_ExactModeFilter ==
    GateDone =>
        /\ \A i \in 1..Len(limitation_rules) : DeclaresExactly(limitation_rules[i], Sentinel)
        /\ \A i \in 1..Len(rules) :
              DeclaresExactly(rules[i], Sentinel) =>
                 \E j \in 1..Len(limitation_rules) : limitation_rules[j] = rules[i]
        /\ gate_result <=>
              (\E i \in 1..Len(rules) :
                  DeclaresExactly(rules[i], Sentinel) /\ rules[i].name \in caps_matches)

C9_Witness ==
    /\ GateDone
    /\ op = "has_static_limitation"
    /\ ~gate_result
    /\ \E i, j, k \in 1..Len(rules) :
          /\ {rules[i].name, rules[j].name, rules[k].name} \subseteq caps_matches
          /\ DeclaresExactly(rules[i], DYNAMIC_NS)
          /\ DeclaresExactly(rules[j], "internal/limitation/static/packer")
          /\ "namespace" \notin DOMAIN rules[k].meta

====
